---- MODULE Spec2Model ----
(***************************************************************************)
(* Model of the Square payment handler of vendure-plugin-square.           *)
(*                                                                         *)
(* State: the two module-level variables of square-payment-handler.ts      *)
(* (squareOptions, squareClient), the wall clock read by Date.now(), and   *)
(* a bounded number of handler invocations, which may overlap.  Every      *)
(* invocation runs its synchronous prefix (client accessor, validation,    *)
(* request construction, issuing the processor call, arming the timer) in  *)
(* one step, because JavaScript runs it without yielding; it then waits    *)
(* on Promise.race until the processor promise settles or the timer        *)
(* fires.  The timer and the processor call stay pending after the         *)
(* handler returned: withTimeout clears neither.                           *)
(*                                                                         *)
(* JavaScript values: an optional object is the empty sequence <<>> or a   *)
(* one-element sequence <<obj>>; the value undefined of a string field is  *)
(* UNDEF; a template string is the sequence of its parts.                  *)
(***************************************************************************)
EXTENDS Integers, Sequences, FiniteSets, TLC

(* ---------------------------- bounds ----------------------------------- *)
MaxInv == 2        \* handler invocations over a run, any of them concurrent
MaxTime == 1       \* Date.now() ranges over 0..MaxTime
MaxInits == 2      \* calls of SquarePlugin.init

Invs == 1..MaxInv

(* ------------------------- program constants --------------------------- *)
UNDEF == "<undefined>"

ConfigErrorMsg == "Square options not configured - call SquarePlugin.init() first"
MissingTokenMsg == "Missing Square payment token (sourceId) from frontend"
NoPaymentObjectMsg == "Square payment creation failed - no payment object returned"
CreateFallbackMsg == "Square payment creation failed"
CreateTimeoutMsg == "Square payment creation timeout"
MissingPaymentIdMsg == "Missing Square payment ID - cannot settle payment"
SettleFallbackMsg == "Failed to settle Square payment"
SettleTimeoutMsg == "Square payment settlement timeout"
RefundMissingIdMsg == "Missing Square payment ID"
RefundFallbackMsg == "Refund failed"
RefundTimeoutMsg == "Square refund timeout"
DefaultRefundReason == "Customer refund request"

(* ------------------------------ inputs --------------------------------- *)
Credentials ==
  { [accessToken |-> "tokA", environment |-> "sandbox", locationId |-> "L1"],
    [accessToken |-> "tokB", environment |-> "production", locationId |-> "L2"] }

Orders ==
  { [code |-> "ORD1", total |-> 1000, currencyCode |-> "USD"] }

Amounts == {500, 1000}

Metadatas ==
  { [sourceId |-> UNDEF, token |-> UNDEF],
    [sourceId |-> "cnon:card", token |-> UNDEF],
    [sourceId |-> "", token |-> "tok:legacy"] }

Payments ==
  { [id |-> "7", transactionId |-> UNDEF],
    [id |-> "7", transactionId |-> "pay_1"] }

RefundAmounts == {500}

Reasons == {UNDEF}

\* what the processor may answer to payments.create / payments.complete
PaymentResponses ==
  { [payment |-> <<>>] } \cup
  { [payment |-> <<[id |-> "pay_1", status |-> s,
                     receiptUrl |-> "https://rcpt/1", orderId |-> "sq_ord_1"]>>] :
       s \in {"COMPLETED", "APPROVED"} } \cup
  { [payment |-> <<[id |-> UNDEF, status |-> UNDEF,
                     receiptUrl |-> UNDEF, orderId |-> UNDEF]>>] }

\* what the processor may answer to refunds.refundPayment
RefundResponses ==
  { [refund |-> <<>>] } \cup
  { [refund |-> <<[id |-> "ref_1", status |-> s]>>] :
       s \in {"COMPLETED", "PENDING", "REJECTED"} } \cup
  { [refund |-> <<[id |-> UNDEF, status |-> "PENDING"]>>] }

\* the message of an Error the processor client may reject with
ErrorMessages == {"", "CARD_DECLINED"}

(* --------------------------- JavaScript -------------------------------- *)
\* !v for a string-or-undefined value
Truthy(v) == v # UNDEF /\ v # ""

\* a || b
OrElse(a, b) == IF Truthy(a) THEN a ELSE b

\* obj?.status for an optional object
OptStatus(opt) == IF opt = <<>> THEN UNDEF ELSE opt[1].status

(* ------------------------------ state ---------------------------------- *)
VARIABLES
  squareOptions,   \* <<>> (null) or <<options>>
  squareClient,    \* <<>> (null) or <<client>>
  now,             \* Date.now()
  inits,           \* number of SquarePlugin.init calls so far
  clientsBuilt,    \* every client constructed so far, in order
  inv              \* the handler invocations

vars == <<squareOptions, squareClient, now, inits, clientsBuilt, inv>>

NoArgs ==
  [order |-> <<>>, amount |-> 0, sourceId |-> UNDEF, token |-> UNDEF,
   transactionId |-> UNDEF, paymentId |-> UNDEF, reason |-> UNDEF]

IdleInv ==
  [op |-> "none", pc |-> "idle", args |-> NoArgs, requests |-> <<>>,
   call |-> "none", timer |-> "none", settledBy |-> "none",
   response |-> <<>>, caught |-> <<>>, result |-> <<>>,
   configured |-> FALSE, retryOf |-> {}]

(* ------------------ module-level options and client -------------------- *)
\* mutant of setSquareOptions: the cached client is kept
SetSquareOptionsKeepClient(options) ==
  [squareOptions |-> <<options>>, squareClient |-> squareClient]

\* setSquareOptions: new values of <<squareOptions, squareClient>>
SetSquareOptions(options) == [squareOptions |-> <<options>>, squareClient |-> <<>>]

\* mutant of getSquareOptions: falls back to built-in credentials instead of
\* throwing
GetSquareOptionsDefault(opts) ==
  IF opts = <<>>
  THEN [threw |-> FALSE, msg |-> UNDEF,
        value |-> <<[accessToken |-> "tokA", environment |-> "sandbox",
                     locationId |-> "L1"]>>]
  ELSE [threw |-> FALSE, msg |-> UNDEF, value |-> opts]

\* getSquareOptions: throws when the options are null
GetSquareOptions(opts) ==
  IF opts = <<>>
  THEN [threw |-> TRUE, msg |-> ConfigErrorMsg, value |-> <<>>]
  ELSE [threw |-> FALSE, msg |-> UNDEF, value |-> opts]

\* new SquareClient({token, environment})
NewSquareClient(options, serial) ==
  [serial |-> serial,
   token |-> options.accessToken,
   environment |-> IF options.environment = "production"
                   THEN "SquareEnvironment.Production"
                   ELSE "SquareEnvironment.Sandbox"]

\* mutant of getSquareClient: the client is not cached
GetSquareClientUncached(client, opts, serial) ==
  LET o == GetSquareOptions(opts)
  IN IF o.threw
     THEN [threw |-> TRUE, msg |-> o.msg, client |-> <<>>, built |-> FALSE]
     ELSE [threw |-> FALSE, msg |-> UNDEF,
           client |-> <<NewSquareClient(o.value[1], serial)>>, built |-> TRUE]

\* getSquareClient: the cached client, or a new one built from the options
GetSquareClient(client, opts, serial) ==
  IF client = <<>>
  THEN LET o == GetSquareOptions(opts)
       IN IF o.threw
          THEN [threw |-> TRUE, msg |-> o.msg, client |-> <<>>, built |-> FALSE]
          ELSE [threw |-> FALSE, msg |-> UNDEF,
                client |-> <<NewSquareClient(o.value[1], serial)>>, built |-> TRUE]
  ELSE [threw |-> FALSE, msg |-> UNDEF, client |-> client, built |-> FALSE]

(* ---------------------------- withTimeout ------------------------------ *)
\* mutant of withTimeout: the arm that settles last decides
RaceLastWins(settledBy, arm) == arm

\* Promise.race([promise, timeout]): the first arm to settle decides, a later
\* settlement of the other arm is ignored
Race(settledBy, arm) == IF settledBy = "none" THEN arm ELSE settledBy

(* ---------------------------- createPayment ---------------------------- *)
\* `${order.code}-create-${Date.now()}`
CreateIdempotencyKey(order, t) == <<order.code, "-create-", t>>

\* mutant of createPayment: the request carries order.total, not the amount
CreatePaymentRequestOrderTotal(client, opts, order, amount, sourceId, t) ==
  [api |-> "payments.create",
   client |-> [token |-> client.token, environment |-> client.environment],
   sourceId |-> sourceId,
   idempotencyKey |-> <<order.code, "-create-", t>>,
   amount |-> order.total,
   currency |-> order.currencyCode,
   locationId |-> opts.locationId,
   referenceId |-> order.code,
   paymentId |-> UNDEF,
   reason |-> UNDEF,
   autocomplete |-> FALSE]

\* the argument of client.payments.create
CreatePaymentRequest(client, opts, order, amount, sourceId, t) ==
  [api |-> "payments.create",
   client |-> [token |-> client.token, environment |-> client.environment],
   sourceId |-> sourceId,
   idempotencyKey |-> CreateIdempotencyKey(order, t),
   amount |-> amount,
   currency |-> order.currencyCode,
   locationId |-> opts.locationId,
   referenceId |-> order.code,
   paymentId |-> UNDEF,
   reason |-> UNDEF,
   autocomplete |-> FALSE]

\* the catch block of createPayment
CreatePaymentCatch(order, msg) ==
  [amount |-> order.total, state |-> "Declined",
   errorMessage |-> OrElse(msg, CreateFallbackMsg),
   metadata |-> [error |-> msg]]

\* mutant of createPayment: the `if (!sourceId)` check is missing
CreatePaymentBodyUnchecked(c, opts, order, amount, metadata, t) ==
  IF c.threw THEN [kind |-> "throw", msg |-> c.msg]
  ELSE LET sourceId == OrElse(metadata.sourceId, metadata.token)
           o == GetSquareOptions(opts)
       IN IF o.threw THEN [kind |-> "throw", msg |-> o.msg]
          ELSE [kind |-> "call",
                request |-> CreatePaymentRequest(c.client[1], o.value[1],
                                                 order, amount, sourceId, t)]

\* createPayment up to its await: a result, or the request it sends
CreatePaymentBody(c, opts, order, amount, metadata, t) ==
  IF c.threw THEN [kind |-> "throw", msg |-> c.msg]
  ELSE LET sourceId == OrElse(metadata.sourceId, metadata.token)
       IN IF ~Truthy(sourceId)
          THEN [kind |-> "return",
                result |-> [amount |-> order.total, state |-> "Declined",
                            errorMessage |-> MissingTokenMsg, metadata |-> <<>>]]
          ELSE LET o == GetSquareOptions(opts)
               IN IF o.threw THEN [kind |-> "throw", msg |-> o.msg]
                  ELSE [kind |-> "call",
                        request |-> CreatePaymentRequest(c.client[1], o.value[1],
                                                         order, amount, sourceId, t)]

\* mutant of createPayment: a payment is authorized only with status APPROVED
CreatePaymentOnResponseByStatus(order, response) ==
  IF response.payment = <<>> \/ OptStatus(response.payment) # "APPROVED"
  THEN [amount |-> order.total, state |-> "Declined",
        errorMessage |-> NoPaymentObjectMsg, metadata |-> <<>>]
  ELSE LET payment == response.payment[1]
       IN [amount |-> order.total, state |-> "Authorized",
           transactionId |-> OrElse(payment.id, ""),
           metadata |-> [squarePaymentId |-> payment.id,
                         status |-> payment.status,
                         receiptUrl |-> payment.receiptUrl,
                         orderId |-> payment.orderId]]

\* createPayment after the processor answered
CreatePaymentOnResponse(order, response) ==
  IF response.payment = <<>>
  THEN [amount |-> order.total, state |-> "Declined",
        errorMessage |-> NoPaymentObjectMsg, metadata |-> <<>>]
  ELSE LET payment == response.payment[1]
       IN [amount |-> order.total, state |-> "Authorized",
           transactionId |-> OrElse(payment.id, ""),
           metadata |-> [squarePaymentId |-> payment.id,
                         status |-> payment.status,
                         receiptUrl |-> payment.receiptUrl,
                         orderId |-> payment.orderId]]

(* ---------------------------- settlePayment ---------------------------- *)
\* ${value} inside a template string
TemplateStr(v) == IF v = UNDEF THEN "undefined" ELSE v

\* the argument of client.payments.complete
SettlePaymentRequest(client, squarePaymentId) ==
  [api |-> "payments.complete",
   client |-> [token |-> client.token, environment |-> client.environment],
   sourceId |-> UNDEF,
   idempotencyKey |-> <<>>,
   amount |-> 0,
   currency |-> UNDEF,
   locationId |-> UNDEF,
   referenceId |-> UNDEF,
   paymentId |-> squarePaymentId,
   reason |-> UNDEF,
   autocomplete |-> FALSE]

\* the catch block of settlePayment
SettlePaymentCatch(msg) ==
  [success |-> FALSE,
   errorMessage |-> OrElse(msg, SettleFallbackMsg),
   metadata |-> [error |-> msg]]

\* settlePayment up to its await
SettlePaymentBody(c, payment) ==
  IF c.threw THEN [kind |-> "throw", msg |-> c.msg]
  ELSE LET squarePaymentId == payment.transactionId
       IN IF ~Truthy(squarePaymentId)
          THEN [kind |-> "return",
                result |-> [success |-> FALSE, errorMessage |-> MissingPaymentIdMsg]]
          ELSE [kind |-> "call",
                request |-> SettlePaymentRequest(c.client[1], squarePaymentId)]

\* mutant of settlePayment: any returned payment counts as settled
SettlePaymentOnResponseAnyStatus(response) ==
  LET completedPayment == response.payment
  IN IF completedPayment # <<>>
     THEN [success |-> TRUE,
           metadata |-> [squarePaymentId |-> completedPayment[1].id,
                         status |-> completedPayment[1].status]]
     ELSE [success |-> FALSE,
           errorMessage |-> <<"Square payment not completed. Status: ",
                              TemplateStr(OptStatus(completedPayment))>>,
           metadata |-> [status |-> OptStatus(completedPayment)]]

\* settlePayment after the processor answered
SettlePaymentOnResponse(response) ==
  LET completedPayment == response.payment
  IN IF completedPayment # <<>> /\ completedPayment[1].status = "COMPLETED"
     THEN [success |-> TRUE,
           metadata |-> [squarePaymentId |-> completedPayment[1].id,
                         status |-> completedPayment[1].status]]
     ELSE [success |-> FALSE,
           errorMessage |-> <<"Square payment not completed. Status: ",
                              TemplateStr(OptStatus(completedPayment))>>,
           metadata |-> [status |-> OptStatus(completedPayment)]]

(* ----------------------------- createRefund ---------------------------- *)
\* `${order.code}-refund-${payment.id}-${Date.now()}`
RefundIdempotencyKey(order, payment, t) ==
  <<order.code, "-refund-", payment.id, "-", t>>

\* the argument of client.refunds.refundPayment
CreateRefundRequest(client, input, amount, order, payment, t) ==
  [api |-> "refunds.refundPayment",
   client |-> [token |-> client.token, environment |-> client.environment],
   sourceId |-> UNDEF,
   idempotencyKey |-> RefundIdempotencyKey(order, payment, t),
   amount |-> amount,
   currency |-> order.currencyCode,
   locationId |-> UNDEF,
   referenceId |-> UNDEF,
   paymentId |-> payment.transactionId,
   reason |-> OrElse(input.reason, DefaultRefundReason),
   autocomplete |-> FALSE]

\* the catch block of createRefund
CreateRefundCatch(msg) ==
  [state |-> "Failed", metadata |-> [error |-> OrElse(msg, RefundFallbackMsg)]]

\* createRefund up to its await
CreateRefundBody(c, input, amount, order, payment, t) ==
  IF c.threw THEN [kind |-> "throw", msg |-> c.msg]
  ELSE LET squarePaymentId == payment.transactionId
       IN IF ~Truthy(squarePaymentId)
          THEN [kind |-> "return",
                result |-> [state |-> "Failed",
                            metadata |-> [error |-> RefundMissingIdMsg]]]
          ELSE [kind |-> "call",
                request |-> CreateRefundRequest(c.client[1], input, amount,
                                                order, payment, t)]

\* mutant of createRefund: only a COMPLETED refund counts as settled
CreateRefundOnResponseCompletedOnly(response) ==
  LET refund == response.refund
  IN IF refund # <<>> /\ refund[1].status = "COMPLETED"
     THEN [state |-> "Settled",
           transactionId |-> OrElse(refund[1].id, ""),
           metadata |-> [squareRefundId |-> refund[1].id,
                         status |-> refund[1].status]]
     ELSE [state |-> "Failed",
           metadata |-> [error |-> <<"Refund failed with status: ",
                                     TemplateStr(OptStatus(refund))>>]]

\* createRefund after the processor answered
CreateRefundOnResponse(response) ==
  LET refund == response.refund
  IN IF refund # <<>> /\ (refund[1].status = "COMPLETED" \/ refund[1].status = "PENDING")
     THEN [state |-> "Settled",
           transactionId |-> OrElse(refund[1].id, ""),
           metadata |-> [squareRefundId |-> refund[1].id,
                         status |-> refund[1].status]]
     ELSE [state |-> "Failed",
           metadata |-> [error |-> <<"Refund failed with status: ",
                                     TemplateStr(OptStatus(refund))>>]]

(* ------------------------- the three handlers -------------------------- *)
\* the catch block of the handler op, applied to an Error with message msg
Catch(op, a, msg) ==
  CASE op = "createPayment" -> CreatePaymentCatch(a.order[1], msg)
    [] op = "settlePayment" -> SettlePaymentCatch(msg)
    [] op = "createRefund" -> CreateRefundCatch(msg)

\* mutant of the handlers' try/catch: getSquareClient is called outside the
\* try block, so its configuration error propagates
TryCatchAfterAccessor(op, a, out) ==
  IF out.kind = "throw" /\ out.msg # ConfigErrorMsg
  THEN [kind |-> "return", result |-> Catch(op, a, out.msg)]
  ELSE out

\* try { body } catch (error) { ... }: a throw of the body becomes a result
TryCatch(op, a, out) ==
  IF out.kind = "throw"
  THEN [kind |-> "return", result |-> Catch(op, a, out.msg)]
  ELSE out

\* the code after the await, for the handler op
OnResponse(op, a, response) ==
  CASE op = "createPayment" -> CreatePaymentOnResponse(a.order[1], response)
    [] op = "settlePayment" -> SettlePaymentOnResponse(response)
    [] op = "createRefund" -> CreateRefundOnResponse(response)

\* the errorMessage argument the handler op gives withTimeout
TimeoutMessage(op) ==
  CASE op = "createPayment" -> CreateTimeoutMsg
    [] op = "settlePayment" -> SettleTimeoutMsg
    [] op = "createRefund" -> RefundTimeoutMsg

\* what the processor may answer to the call of the handler op
ResponsesOf(op) == IF op = "createRefund" THEN RefundResponses ELSE PaymentResponses

\* earlier attempts of the same logical operation that ended in a transport
\* failure (processor error or timeout): the new invocation is a retry of them
FailedAttempts(i, op, a) ==
  { j \in Invs \ {i} : /\ inv[j].pc = "returned"
                       /\ inv[j].op = op
                       /\ inv[j].args = a
                       /\ inv[j].settledBy \in {"rejected", "timeout"} }

\* the invocation i of handler op after its synchronous prefix
Started(i, op, a, out) ==
  IF out.kind = "call"
  THEN [IdleInv EXCEPT !.op = op, !.args = a, !.pc = "awaiting",
                       !.configured = (squareOptions # <<>>),
                       !.requests = <<out.request>>,
                       !.call = "inflight", !.timer = "armed",
                       !.retryOf = FailedAttempts(i, op, a)]
  ELSE [IdleInv EXCEPT !.op = op, !.args = a,
                       !.configured = (squareOptions # <<>>),
                       !.pc = IF out.kind = "return" THEN "returned" ELSE "threw",
                       !.result = IF out.kind = "return" THEN <<out.result>> ELSE <<>>,
                       !.caught = IF out.kind = "return" THEN <<>> ELSE <<out.msg>>,
                       !.retryOf = FailedAttempts(i, op, a)]

\* the effect of the getSquareClient call c on the module-level client
ClientAfter(c) ==
  /\ squareClient' = c.client
  /\ clientsBuilt' = IF c.built
                     THEN Append(clientsBuilt, [client |-> c.client[1],
                                                options |-> squareOptions[1],
                                                epoch |-> inits])
                     ELSE clientsBuilt

\* the invocations are numbered in the order the host starts them
CanStart(i) ==
  /\ inv[i].pc = "idle"
  /\ \A j \in Invs : j < i => inv[j].pc # "idle"

Init ==
  /\ squareOptions = <<>>
  /\ squareClient = <<>>
  /\ now = 0
  /\ inits = 0
  /\ clientsBuilt = <<>>
  /\ inv = [i \in Invs |-> IdleInv]

\* SquarePlugin.init(options)
PluginInit(options) ==
  /\ inits < MaxInits
  /\ squareOptions' = SetSquareOptions(options).squareOptions
  /\ squareClient' = SetSquareOptions(options).squareClient
  /\ inits' = inits + 1
  /\ UNCHANGED <<now, clientsBuilt, inv>>

\* the clock advances
Tick ==
  /\ now < MaxTime
  /\ now' = now + 1
  /\ UNCHANGED <<squareOptions, squareClient, inits, clientsBuilt, inv>>

\* the host calls createPayment(ctx, order, amount, args, metadata)
CreatePayment(i, order, amount, metadata) ==
  LET a == [NoArgs EXCEPT !.order = <<order>>, !.amount = amount,
                          !.sourceId = metadata.sourceId, !.token = metadata.token]
      c == GetSquareClient(squareClient, squareOptions, Len(clientsBuilt) + 1)
      out == TryCatch("createPayment", a,
                      CreatePaymentBody(c, squareOptions, order, amount, metadata, now))
  IN /\ CanStart(i)
     /\ ClientAfter(c)
     /\ inv' = [inv EXCEPT ![i] = Started(i, "createPayment", a, out)]
     /\ UNCHANGED <<squareOptions, now, inits>>

\* the host calls settlePayment(ctx, order, payment, args)
SettlePayment(i, order, payment) ==
  LET a == [NoArgs EXCEPT !.order = <<order>>,
                          !.transactionId = payment.transactionId,
                          !.paymentId = payment.id]
      c == GetSquareClient(squareClient, squareOptions, Len(clientsBuilt) + 1)
      out == TryCatch("settlePayment", a, SettlePaymentBody(c, payment))
  IN /\ CanStart(i)
     /\ ClientAfter(c)
     /\ inv' = [inv EXCEPT ![i] = Started(i, "settlePayment", a, out)]
     /\ UNCHANGED <<squareOptions, now, inits>>

\* the host calls createRefund(ctx, input, amount, order, payment, args)
CreateRefund(i, input, amount, order, payment) ==
  LET a == [NoArgs EXCEPT !.order = <<order>>, !.amount = amount,
                          !.transactionId = payment.transactionId,
                          !.paymentId = payment.id, !.reason = input.reason]
      c == GetSquareClient(squareClient, squareOptions, Len(clientsBuilt) + 1)
      out == TryCatch("createRefund", a,
                      CreateRefundBody(c, input, amount, order, payment, now))
  IN /\ CanStart(i)
     /\ ClientAfter(c)
     /\ inv' = [inv EXCEPT ![i] = Started(i, "createRefund", a, out)]
     /\ UNCHANGED <<squareOptions, now, inits>>

\* the processor call of invocation i resolves with a response (the answer
\* exists whether or not the handler still waits for it); the handler resumes
\* after its await when this settles the race
ProcessorResolve(i, response) ==
  /\ inv[i].call = "inflight"
  /\ response \in ResponsesOf(inv[i].op)
  /\ inv' = [inv EXCEPT ![i] =
       IF Race(inv[i].settledBy, "resolved") = "resolved"
       THEN [@ EXCEPT !.call = "resolved",
                      !.settledBy = "resolved",
                      !.response = <<response>>,
                      !.pc = "returned",
                      !.result = <<OnResponse(inv[i].op, inv[i].args, response)>>]
       ELSE [@ EXCEPT !.call = "resolved", !.response = <<response>>]]
  /\ UNCHANGED <<squareOptions, squareClient, now, inits, clientsBuilt>>

\* mutant of the handlers: a rejected processor call is issued a second time
ProcessorRejectRetry(i, msg) ==
  /\ inv[i].call = "inflight"
  /\ inv' = [inv EXCEPT ![i] =
       IF Len(inv[i].requests) < 2
       THEN [@ EXCEPT !.requests = Append(@, @[1])]
       ELSE [@ EXCEPT !.call = "rejected",
                      !.settledBy = Race(@, "rejected"),
                      !.caught = <<msg>>,
                      !.pc = "returned",
                      !.result = <<Catch(inv[i].op, inv[i].args, msg)>>]]
  /\ UNCHANGED <<squareOptions, squareClient, now, inits, clientsBuilt>>

\* the processor call of invocation i rejects with an Error; the handler
\* enters its catch block when this settles the race
ProcessorReject(i, msg) ==
  /\ inv[i].call = "inflight"
  /\ inv' = [inv EXCEPT ![i] =
       IF Race(inv[i].settledBy, "rejected") = "rejected"
       THEN [@ EXCEPT !.call = "rejected",
                      !.settledBy = "rejected",
                      !.caught = <<msg>>,
                      !.pc = "returned",
                      !.result = <<Catch(inv[i].op, inv[i].args, msg)>>]
       ELSE [@ EXCEPT !.call = "rejected"]]
  /\ UNCHANGED <<squareOptions, squareClient, now, inits, clientsBuilt>>

\* mutant of withTimeout: the timeout aborts the processor call
TimerFireAborts(i) ==
  /\ inv[i].timer = "armed"
  /\ inv' = [inv EXCEPT ![i] =
       IF Race(inv[i].settledBy, "timeout") = "timeout"
       THEN [@ EXCEPT !.timer = "fired",
                      !.settledBy = "timeout",
                      !.call = "aborted",
                      !.caught = <<TimeoutMessage(inv[i].op)>>,
                      !.pc = "returned",
                      !.result = <<Catch(inv[i].op, inv[i].args,
                                         TimeoutMessage(inv[i].op))>>]
       ELSE [@ EXCEPT !.timer = "fired"]]
  /\ UNCHANGED <<squareOptions, squareClient, now, inits, clientsBuilt>>

\* the setTimeout callback of invocation i runs: reject(new Error(errorMessage));
\* the handler enters its catch block when this settles the race
TimerFire(i) ==
  /\ inv[i].timer = "armed"
  /\ inv' = [inv EXCEPT ![i] =
       IF Race(inv[i].settledBy, "timeout") = "timeout"
       THEN [@ EXCEPT !.timer = "fired",
                      !.settledBy = "timeout",
                      !.caught = <<TimeoutMessage(inv[i].op)>>,
                      !.pc = "returned",
                      !.result = <<Catch(inv[i].op, inv[i].args,
                                         TimeoutMessage(inv[i].op))>>]
       ELSE [@ EXCEPT !.timer = "fired"]]
  /\ UNCHANGED <<squareOptions, squareClient, now, inits, clientsBuilt>>

Next ==
  \/ \E options \in Credentials : PluginInit(options)
  \/ Tick
  \/ \E i \in Invs, order \in Orders, amount \in Amounts, metadata \in Metadatas :
       CreatePayment(i, order, amount, metadata)
  \/ \E i \in Invs, order \in Orders, payment \in Payments :
       SettlePayment(i, order, payment)
  \/ \E i \in Invs, reason \in Reasons, amount \in RefundAmounts,
        order \in Orders, payment \in Payments :
       CreateRefund(i, [reason |-> reason], amount, order, payment)
  \/ \E i \in Invs, response \in PaymentResponses \cup RefundResponses :
       ProcessorResolve(i, response)
  \/ \E i \in Invs, msg \in ErrorMessages : ProcessorReject(i, msg)
  \/ \E i \in Invs : TimerFire(i)

Spec == Init /\ [][Next]_vars

(* ======================= properties of the handlers ==================== *)
\* invocation i has been started by the host
Invoked(i) == inv[i].pc # "idle"

\* the invocation lacks the identifier its operation requires
LacksId(i) ==
  IF inv[i].op = "createPayment"
  THEN ~Truthy(inv[i].args.sourceId) /\ ~Truthy(inv[i].args.token)
  ELSE ~Truthy(inv[i].args.transactionId)

\* r is the failure result of the handler op
IsFailure(op, r) ==
  CASE op = "createPayment" -> r.state = "Declined"
    [] op = "settlePayment" -> r.success = FALSE
    [] op = "createRefund" -> r.state = "Failed"

\* the error message a failure result of the handler op carries
FailureMessage(op, r) ==
  CASE op = "createPayment" -> r.errorMessage
    [] op = "settlePayment" -> r.errorMessage
    [] op = "createRefund" -> r.metadata.error

\* invocation i returned the failure result of its operation
ReturnedFailure(i) ==
  /\ inv[i].pc = "returned"
  /\ inv[i].result # <<>>
  /\ IsFailure(inv[i].op, inv[i].result[1])

\* C1: an invocation that lacks its required identifier (createPayment with
\* neither sourceId nor token, settlePayment or createRefund without a
\* transactionId) returns the failure result of its operation and makes no
\* processor API call.
C1_MissingIdFailsWithoutCall ==
  \A i \in Invs :
    (Invoked(i) /\ LacksId(i)) => (ReturnedFailure(i) /\ inv[i].requests = <<>>)

\* C1 witness: with credentials set, a createPayment without token and a
\* createRefund without transaction id have both returned.
C1_Witness ==
  \E i, j \in Invs :
    /\ inv[i].op = "createPayment" /\ LacksId(i) /\ inv[i].configured
    /\ inv[i].pc = "returned" /\ inv[i].result[1].errorMessage = MissingTokenMsg
    /\ inv[j].op = "createRefund" /\ LacksId(j) /\ inv[j].configured
    /\ inv[j].pc = "returned"
    /\ inv[j].result[1].metadata.error = RefundMissingIdMsg

\* C3 as stated: a finished invocation has thrown to the host if and only if
\* it was invoked before credentials were ever set.
C3_ThrowsIffUnconfigured ==
  \A i \in Invs :
    inv[i].pc \in {"returned", "threw"} =>
      ((inv[i].pc = "threw") <=> ~inv[i].configured)

\* C3 amended: no invocation throws to the host; invoked before credentials
\* were set it returns the failure result of its operation with the
\* configuration error as message, and makes no processor call.
C3_NeverThrows ==
  \A i \in Invs :
    /\ inv[i].pc # "threw"
    /\ (Invoked(i) /\ ~inv[i].configured) =>
         /\ ReturnedFailure(i)
         /\ FailureMessage(inv[i].op, inv[i].result[1]) = ConfigErrorMsg
         /\ inv[i].requests = <<>>

\* C3 witness: one invocation was made before init and returned, another one
\* returned after a processor error or a timeout.
C3_Witness ==
  \E i, j \in Invs :
    /\ inv[i].pc = "returned" /\ ~inv[i].configured
    /\ inv[j].pc = "returned" /\ inv[j].settledBy \in {"rejected", "timeout"}

\* C4: as long as init has never been called, the client accessor fails with
\* the configuration error, no client has been constructed and no handler
\* invocation has made a processor call.
C4_NoInitNoClientNoCall ==
  inits = 0 =>
    /\ squareOptions = <<>>
    /\ squareClient = <<>>
    /\ clientsBuilt = <<>>
    /\ GetSquareClient(squareClient, squareOptions, 1).threw
    /\ GetSquareClient(squareClient, squareOptions, 1).msg = ConfigErrorMsg
    /\ \A i \in Invs :
         /\ inv[i].requests = <<>>
         /\ inv[i].call = "none"
         /\ Invoked(i) =>
              /\ inv[i].pc = "returned"
              /\ FailureMessage(inv[i].op, inv[i].result[1]) = ConfigErrorMsg

\* C4 witness: init was never called and handlers of two different operations
\* have been invoked, one of them with its identifier present.
C4_Witness ==
  /\ inits = 0
  /\ \E i, j \in Invs :
       /\ Invoked(i) /\ Invoked(j) /\ inv[i].op # inv[j].op
       /\ ~LacksId(i)

\* the handler of invocation i resumed with the processor's response
GotResponse(i) == inv[i].settledBy = "resolved" /\ inv[i].response # <<>>

\* C2 as stated: a retry of a createPayment or createRefund that ended in a
\* processor error or a timeout sends the same idempotency key as the attempt
\* it retries.
C2_RetrySameKey ==
  \A i \in Invs : \A j \in inv[i].retryOf :
    (inv[i].requests # <<>> /\ inv[j].requests # <<>>) =>
      inv[i].requests[1].idempotencyKey = inv[j].requests[1].idempotencyKey

\* C5: when settlePayment received the processor's response, success is true
\* exactly if the response has a payment with status "COMPLETED"; otherwise
\* the result carries the status (or undefined) in its metadata and message.
C5_SettleCompletedIff ==
  \A i \in Invs :
    (inv[i].op = "settlePayment" /\ GotResponse(i)) =>
      LET p == inv[i].response[1].payment
          r == inv[i].result[1]
      IN /\ inv[i].pc = "returned"
         /\ (r.success = TRUE) <=> (p # <<>> /\ p[1].status = "COMPLETED")
         /\ (r.success = FALSE) =>
              /\ r.metadata = [status |-> OptStatus(p)]
              /\ r.errorMessage[2] = TemplateStr(OptStatus(p))

\* C5 witness: one settlePayment succeeded on COMPLETED and another one failed
\* on a payment with a different status.
C5_Witness ==
  \E i, j \in Invs :
    /\ inv[i].op = "settlePayment" /\ GotResponse(i) /\ inv[i].result[1].success
    /\ inv[j].op = "settlePayment" /\ GotResponse(j) /\ ~inv[j].result[1].success
    /\ inv[j].result[1].metadata.status = "APPROVED"

\* C6: when createRefund received the processor's response, the state is
\* Settled exactly if the response has a refund with status "COMPLETED" or
\* "PENDING", and otherwise Failed; a Settled result has the refund's id as
\* transactionId whenever the refund carries an id (refund.id || '').
C6_RefundSettledIff ==
  \A i \in Invs :
    (inv[i].op = "createRefund" /\ GotResponse(i)) =>
      LET f == inv[i].response[1].refund
          r == inv[i].result[1]
      IN /\ inv[i].pc = "returned"
         /\ r.state \in {"Settled", "Failed"}
         /\ (r.state = "Settled") <=>
              (f # <<>> /\ OptStatus(f) \in {"COMPLETED", "PENDING"})
         /\ (r.state = "Settled" /\ Truthy(f[1].id)) => r.transactionId = f[1].id

\* C6 witness: one createRefund settled on a PENDING refund with an id and
\* another one failed on a refund with another status.
C6_Witness ==
  \E i, j \in Invs :
    /\ inv[i].op = "createRefund" /\ GotResponse(i)
    /\ inv[i].result[1].state = "Settled"
    /\ inv[i].response[1].refund[1].status = "PENDING"
    /\ inv[i].result[1].transactionId = "ref_1"
    /\ inv[j].op = "createRefund" /\ GotResponse(j)
    /\ inv[j].result[1].state = "Failed"
    /\ inv[j].response[1].refund # <<>>

\* C7: when createPayment received the processor's response, the result is
\* Authorized exactly if the response has a payment object, whatever its
\* status, and otherwise Declined; an Authorized result has the payment's id
\* as transactionId whenever the payment carries an id (payment.id || '').
C7_AuthorizedIffPaymentObject ==
  \A i \in Invs :
    (inv[i].op = "createPayment" /\ GotResponse(i)) =>
      LET p == inv[i].response[1].payment
          r == inv[i].result[1]
      IN /\ inv[i].pc = "returned"
         /\ r.state \in {"Authorized", "Declined"}
         /\ (r.state = "Authorized") <=> (p # <<>>)
         /\ (r.state = "Authorized" /\ Truthy(p[1].id)) => r.transactionId = p[1].id

\* C7 witness: one createPayment was authorized on a payment whose status is
\* not APPROVED and another one was declined for lack of a payment object.
C7_Witness ==
  \E i, j \in Invs :
    /\ inv[i].op = "createPayment" /\ GotResponse(i)
    /\ inv[i].result[1].state = "Authorized"
    /\ inv[i].result[1].transactionId = "pay_1"
    /\ inv[i].response[1].payment[1].status = "COMPLETED"
    /\ inv[j].op = "createPayment" /\ GotResponse(j)
    /\ inv[j].result[1].state = "Declined"
    /\ inv[j].response[1].payment = <<>>

\* the result of the handler op for a processor error with message m
ErrorResult(op, a, m, fallback) ==
  CASE op = "createPayment" ->
         [amount |-> a.order[1].total, state |-> "Declined",
          errorMessage |-> IF m = "" THEN fallback ELSE m,
          metadata |-> [error |-> m]]
    [] op = "settlePayment" ->
         [success |-> FALSE,
          errorMessage |-> IF m = "" THEN fallback ELSE m,
          metadata |-> [error |-> m]]
    [] op = "createRefund" ->
         [state |-> "Failed",
          metadata |-> [error |-> IF m = "" THEN fallback ELSE m]]

\* the fallback message and the timeout message of each operation
FallbackOf(op) ==
  CASE op = "createPayment" -> "Square payment creation failed"
    [] op = "settlePayment" -> "Failed to settle Square payment"
    [] op = "createRefund" -> "Refund failed"

TimeoutOf(op) ==
  CASE op = "createPayment" -> "Square payment creation timeout"
    [] op = "settlePayment" -> "Square payment settlement timeout"
    [] op = "createRefund" -> "Square refund timeout"

\* C8: when the timer of an invocation fires before its processor call has
\* completed, the handler returns the failure result it returns for a thrown
\* processor error, with the operation's timeout message; and no step, a later
\* timer expiry included, changes the result of an invocation that returned.
C8_TimeoutFailsLateTimerIgnored ==
  [][\A i \in Invs :
       /\ (inv[i].pc = "awaiting" /\ inv[i].timer = "armed" /\ inv'[i].timer = "fired") =>
            /\ inv'[i].pc = "returned"
            /\ inv'[i].result =
                 <<ErrorResult(inv[i].op, inv[i].args, TimeoutOf(inv[i].op),
                               FallbackOf(inv[i].op))>>
       /\ (inv[i].pc = "awaiting" /\ inv[i].call = "inflight" /\ inv'[i].call = "rejected") =>
            /\ inv'[i].pc = "returned"
            /\ inv'[i].result =
                 <<ErrorResult(inv[i].op, inv[i].args, inv'[i].caught[1],
                               FallbackOf(inv[i].op))>>
       /\ inv[i].pc = "returned" =>
            (inv'[i].pc = "returned" /\ inv'[i].result = inv[i].result)]_vars

\* C8 witness: one invocation returned on its timeout, and another one
\* returned the processor's response before its timer fired.
C8_Witness ==
  \E i, j \in Invs :
    /\ inv[i].pc = "returned" /\ inv[i].settledBy = "timeout"
    /\ inv[i].call = "inflight"
    /\ inv[j].pc = "returned" /\ inv[j].settledBy = "resolved"
    /\ inv[j].timer = "fired"

\* C9 as stated: at most one client is ever constructed per credential set.
C9_OneClientPerCredentialSet ==
  \A k, l \in DOMAIN clientsBuilt :
    k # l => clientsBuilt[k].options # clientsBuilt[l].options

\* C9 amended: at most one client is constructed per init call; the cached
\* client is the last one constructed, it was constructed after the last init
\* from the stored credentials, and every processor request was sent with a
\* client that was constructed.
C9_OneClientPerInit ==
  /\ \A k, l \in DOMAIN clientsBuilt :
       k # l => clientsBuilt[k].epoch # clientsBuilt[l].epoch
  /\ squareClient # <<>> =>
       /\ clientsBuilt # <<>>
       /\ clientsBuilt[Len(clientsBuilt)].client = squareClient[1]
       /\ clientsBuilt[Len(clientsBuilt)].epoch = inits
       /\ squareOptions # <<>>
       /\ squareClient[1].token = squareOptions[1].accessToken
       /\ (squareClient[1].environment = "SquareEnvironment.Production")
            <=> (squareOptions[1].environment = "production")
  /\ \A i \in Invs : \A n \in DOMAIN inv[i].requests :
       \E k \in DOMAIN clientsBuilt :
         /\ inv[i].requests[n].client.token = clientsBuilt[k].client.token
         /\ inv[i].requests[n].client.environment = clientsBuilt[k].client.environment

\* C9 witness: after init, a use, a second init with the same credentials and
\* a second use, two clients exist for one credential set and both
\* invocations have sent their request.
C9_Witness ==
  /\ Len(clientsBuilt) = 2
  /\ clientsBuilt[1].options = clientsBuilt[2].options
  /\ squareClient # <<>>
  /\ \A i \in Invs : inv[i].requests # <<>>

\* C10: an invocation issues at most one processor call, exactly one when
\* credentials are set and its identifier is present, and after a processor
\* error or a timeout it has returned its failure result without a second
\* call.
C10_SingleAttempt ==
  \A i \in Invs :
    /\ Len(inv[i].requests) <= 1
    /\ (Invoked(i) /\ inv[i].configured /\ ~LacksId(i)) => Len(inv[i].requests) = 1
    /\ (Invoked(i) /\ (~inv[i].configured \/ LacksId(i))) => Len(inv[i].requests) = 0
    /\ inv[i].call \in {"rejected", "resolved"} => inv[i].pc = "returned"
    /\ inv[i].timer = "fired" => inv[i].pc = "returned"
    /\ inv[i].settledBy \in {"rejected", "timeout"} =>
         (ReturnedFailure(i) /\ Len(inv[i].requests) = 1)

\* C10 witness: one invocation failed on a processor error, another one on its
\* timeout, and the processor call of the latter was rejected afterwards.
C10_Witness ==
  \E i, j \in Invs :
    /\ inv[i].settledBy = "rejected" /\ inv[i].pc = "returned"
    /\ inv[j].settledBy = "timeout" /\ inv[j].pc = "returned"
    /\ inv[j].call = "rejected"

\* the processor's answer means the operation took effect at the processor
CompletedAtProcessor(op, response) ==
  IF op = "createRefund"
  THEN response.refund # <<>> /\ OptStatus(response.refund) \in {"COMPLETED", "PENDING"}
  ELSE response.payment # <<>> /\ OptStatus(response.payment) \in {"COMPLETED", "APPROVED"}

\* C11: the timeout does not cancel the processor call: an invocation that
\* returned its timeout failure keeps that result, its processor call is
\* still in flight or has settled since, and while it is in flight the
\* processor can still answer it with any response, a successful one included.
C11_TimedOutCallNotCancelled ==
  \A i \in Invs :
    inv[i].settledBy = "timeout" =>
      /\ inv[i].pc = "returned"
      /\ inv[i].result =
           <<ErrorResult(inv[i].op, inv[i].args, TimeoutOf(inv[i].op),
                         FallbackOf(inv[i].op))>>
      /\ inv[i].call \in {"inflight", "resolved", "rejected"}
      /\ inv[i].call = "inflight" =>
           \A response \in ResponsesOf(inv[i].op) :
             ENABLED ProcessorResolve(i, response)
      /\ inv[i].call = "resolved" => inv[i].response # <<>>

\* C11 witness: a createPayment returned Declined on its timeout and the
\* processor authorized the payment of that same call afterwards.
C11_Witness ==
  \E i \in Invs :
    /\ inv[i].op = "createPayment"
    /\ inv[i].settledBy = "timeout"
    /\ inv[i].result[1].state = "Declined"
    /\ inv[i].result[1].errorMessage = "Square payment creation timeout"
    /\ inv[i].call = "resolved"
    /\ CompletedAtProcessor(inv[i].op, inv[i].response[1])

\* the request r was issued with the client of the credential set c
ClientOf(r, c) ==
  /\ r.client.token = c.accessToken
  /\ (r.client.environment = "SquareEnvironment.Production")
       <=> (c.environment = "production")

\* the request r pairs the client of one credential set with the locationId
\* of a different one
HalfUpdated(r) ==
  /\ r.api = "payments.create"
  /\ \E c, d \in Credentials :
       c # d /\ ClientOf(r, c) /\ r.locationId = d.locationId

\* a re-init with other credentials happened while the createPayment call of
\* invocation i was in flight
ReinitWhileInFlight(i) ==
  /\ inv[i].op = "createPayment"
  /\ inv[i].requests # <<>>
  /\ inv[i].call = "inflight"
  /\ squareOptions # <<>>
  /\ ~ClientOf(inv[i].requests[1], squareOptions[1])

\* C12 as stated: when a re-init interleaves with an in-flight payment call,
\* that call's request carries the client of one credential set and the
\* locationId of another.
C12_ReinitHalfUpdatesInFlightCall ==
  \A i \in Invs : ReinitWhileInFlight(i) => HalfUpdated(inv[i].requests[1])

\* C12 amended: no processor request is half-updated: every payments.create
\* request carries the client and the locationId of one and the same
\* credential set, also when a re-init interleaves with in-flight calls.
C12_NoHalfUpdatedRequest ==
  \A i \in Invs : \A n \in DOMAIN inv[i].requests :
    LET r == inv[i].requests[n]
    IN /\ ~HalfUpdated(r)
       /\ r.api = "payments.create" =>
            \E c \in Credentials : ClientOf(r, c) /\ r.locationId = c.locationId

\* C12 witness: a re-init with other credentials happened while a
\* createPayment call was in flight, and a second createPayment was issued
\* after it with the new credentials.
C12_Witness ==
  \E i, j \in Invs :
    /\ ReinitWhileInFlight(i)
    /\ inv[j].op = "createPayment" /\ inv[j].requests # <<>>
    /\ ClientOf(inv[j].requests[1], squareOptions[1])
    /\ inv[j].requests[1].locationId = squareOptions[1].locationId

\* C13: every createPayment result reports order.total as its amount, the
\* request sent to the processor carries the amount argument, and so an
\* Authorized result whose amount argument differs from order.total reports
\* an amount different from the one authorized at the processor.
C13_ReportedAmountIsOrderTotal ==
  \A i \in Invs :
    inv[i].op = "createPayment" =>
      /\ inv[i].result # <<>> => inv[i].result[1].amount = inv[i].args.order[1].total
      /\ \A n \in DOMAIN inv[i].requests :
           inv[i].requests[n].amount = inv[i].args.amount
      /\ (/\ inv[i].result # <<>>
          /\ inv[i].result[1].state = "Authorized"
          /\ inv[i].args.amount # inv[i].args.order[1].total) =>
           inv[i].result[1].amount # inv[i].requests[1].amount

\* C13 witness: a createPayment with amount 500 for an order of total 1000
\* was authorized, and another one with the amount equal to the total was
\* declined.
C13_Witness ==
  \E i, j \in Invs :
    /\ inv[i].op = "createPayment" /\ inv[i].result # <<>>
    /\ inv[i].result[1].state = "Authorized"
    /\ inv[i].args.amount = 500 /\ inv[i].result[1].amount = 1000
    /\ inv[i].requests[1].amount = 500
    /\ inv[j].op = "createPayment" /\ inv[j].result # <<>>
    /\ inv[j].result[1].state = "Declined"
    /\ inv[j].args.amount = 1000 /\ inv[j].result[1].amount = 1000

====
